---------------------------- MODULE Spec2Model ----------------------------
(***************************************************************************)
(* A model of convert_webp_to_jpg_gui.py: the per-file conversion           *)
(* (convert_single_webp), the Tk application state (WebPConverterApp) and   *)
(* the multiprocessing.Pool that convert_all drives with                    *)
(* apply_async(..., callback=self._on_task_done), close() and join().       *)
(*                                                                         *)
(* Paths are sequences of one-character strings, so that os.path.split,    *)
(* os.path.splitext, os.path.join and str.lower are computed, not assumed. *)
(* The file system maps each existing path to its content.                 *)
(***************************************************************************)
EXTENDS Integers, Sequences, FiniteSets, TLC

(***************************************************************************)
(* Bounds of the model.                                                    *)
(***************************************************************************)
\* the largest cpu_count() of a host, hence the largest pool
MaxWorkers == 2
\* how many times the user presses the convert button
MaxRuns == 2

(***************************************************************************)
(* Strings and paths.                                                      *)
(***************************************************************************)
Upper == [c \in {"W", "E", "B", "P"} |->
            CASE c = "W" -> "w" [] c = "E" -> "e" [] c = "B" -> "b" [] c = "P" -> "p"]

\* str.lower()
lower(s) == [i \in 1..Len(s) |-> IF s[i] \in DOMAIN Upper THEN Upper[s[i]] ELSE s[i]]

\* str.endswith(suffix)
endswith(s, suffix) ==
    /\ Len(suffix) <= Len(s)
    /\ SubSeq(s, Len(s) - Len(suffix) + 1, Len(s)) = suffix

\* str.rfind(c) for a one-character c, 1-based; 0 when c does not occur
rfind(s, c) ==
    LET hits == {i \in 1..Len(s) : s[i] = c}
    IN  IF hits = {} THEN 0 ELSE CHOOSE i \in hits : \A j \in hits : j <= i

\* str.rstrip(c)
rstrip(s, c) ==
    LET keep == {i \in 1..Len(s) : s[i] # c}
    IN  IF keep = {} THEN <<>>
        ELSE SubSeq(s, 1, CHOOSE i \in keep : \A j \in keep : j <= i)

\* os.path.split(p): <<head, tail>>
split(p) ==
    LET i    == rfind(p, "/")
        head == SubSeq(p, 1, i)
        tail == SubSeq(p, i + 1, Len(p))
    IN  IF head # <<>> /\ (\E k \in 1..Len(head) : head[k] # "/")
        THEN <<rstrip(head, "/"), tail>>
        ELSE <<head, tail>>

\* os.path.splitext(p): <<root, ext>>; leading dots of the name are no extension
splitext(p) ==
    LET sepIndex == rfind(p, "/")
        dotIndex == rfind(p, ".")
    IN  IF dotIndex > sepIndex
           /\ \E k \in (sepIndex + 1)..(dotIndex - 1) : p[k] # "."
        THEN <<SubSeq(p, 1, dotIndex - 1), SubSeq(p, dotIndex, Len(p))>>
        ELSE <<p, <<>>>>

\* os.path.join(a, b)
join(a, b) ==
    IF b # <<>> /\ b[1] = "/" THEN b
    ELSE IF a = <<>> \/ a[Len(a)] = "/" THEN a \o b
    ELSE a \o <<"/">> \o b

\* the extension convert_single_webp gives the output of a format
JpgExt == <<".", "j", "p", "g">>
GifExt == <<".", "g", "i", "f">>
WebpExt == <<".", "w", "e", "b", "p">>

OutExt(output_format) == IF output_format = "JPEG" THEN JpgExt ELSE GifExt

\* the output named after the whole file name, os.path.splitext forgotten
OutPathKeepsExt(webp_path, output_format) ==
    LET dirname  == split(webp_path)[1]
        filename == split(webp_path)[2]
    IN  join(dirname, filename \o OutExt(output_format))

\* lines 31-36 and 49-50: the path the task writes
OutPath(webp_path, output_format) ==
    LET dirname   == split(webp_path)[1]
        filename  == split(webp_path)[2]
        base_name == splitext(filename)[1]
    IN  join(dirname, base_name \o OutExt(output_format))

(***************************************************************************)
(* Images.  A pixel is a grey level; a decoded frame is a sequence of      *)
(* pixels with its info dictionary, which may hold a "duration".           *)
(***************************************************************************)
NoInfo == <<>>
DefaultDuration == 100

\* first_rgb.quantize(colors=256, method=MEDIANCUT): with no more than 256
\* distinct colours every colour of the first frame gets a palette entry
MedianCut(pix) == {pix[i] : i \in 1..Len(pix)}

Dist(a, b) == IF a < b THEN b - a ELSE a - b

\* f_rgb.quantize(palette=paletted_first): every pixel goes to the nearest
\* palette entry
Remap(pix, palette) ==
    [i \in 1..Len(pix) |->
        CHOOSE q \in palette :
            \A r \in palette :
                \/ Dist(pix[i], q) < Dist(pix[i], r)
                \/ Dist(pix[i], q) = Dist(pix[i], r) /\ q <= r]

Quantize(pix, palette) == [palette |-> palette, pix |-> Remap(pix, palette)]

\* line 69: frame.info.get("duration", 100)
DurationOf(frame) ==
    IF "duration" \in DOMAIN frame.info THEN frame.info["duration"]
    ELSE DefaultDuration

(***************************************************************************)
(* File contents.  A WebP source holds its frames; bad = k > 0 means that   *)
(* decoding frame k raises (a truncated file), bad = 0 that every frame    *)
(* decodes.                                                                *)
(***************************************************************************)
Frame(pix, info) == [pix |-> pix, info |-> info]
Timed(ms) == [duration |-> ms]
Webp(frames, bad) == [kind |-> "webp", frames |-> frames, bad |-> bad]
Corrupt == [kind |-> "corrupt"]
OtherFile == [kind |-> "text"]
Partial == [kind |-> "partial"]

Animated ==
    Webp(<<Frame(<<0, 2>>, NoInfo), Frame(<<3, 1>>, Timed(40)),
           Frame(<<2, 2>>, Timed(80))>>, 0)
StillFrame == Webp(<<Frame(<<2, 1>>, NoInfo)>>, 0)

\* the contents the first source of the batch folder may have
Sources ==
    { Animated,
      Corrupt,
      Webp(<<Frame(<<1, 2>>, Timed(80))>>, 0),
      Webp(<<Frame(<<0, 3>>, Timed(80)), Frame(<<1, 2>>, NoInfo)>>, 0),
      Webp(<<Frame(<<0, 3>>, Timed(80)), Frame(<<1, 1>>, Timed(80))>>, 2) }

\* a GIF task that reads the first frame only, as the JPEG task does
DecodeFailsFirstFrame(content, output_format) ==
    \/ content.kind # "webp"
    \/ content.bad = 1

\* lines 37-39 and 51-69: what the task can decode of a source before it saves
DecodeFails(content, output_format) ==
    \/ content.kind # "webp"
    \/ content.bad = 1
    \/ output_format # "JPEG" /\ content.bad # 0

\* lines 39-46: img.convert("RGB").save(out_path, format="JPEG", ...)
EncodeJpeg(content) == [kind |-> "jpeg", pix |-> content.frames[1].pix]

\* line 71: which of the two GIF writers is used
StaticGif(n) == n <= 1

\* lines 56-62: the palette image of the first frame
PalettedFirst(content) ==
    Quantize(content.frames[1].pix, MedianCut(content.frames[1].pix))

\* every frame quantized on its own, with a palette of its own colours
FramesOwnPalette(content) ==
    [k \in 1..Len(content.frames) |->
        Quantize(content.frames[k].pix, MedianCut(content.frames[k].pix))]

\* lines 65-68: every frame is mapped onto the palette of paletted_first
FramesRgb(content) ==
    [k \in 1..Len(content.frames) |->
        Quantize(content.frames[k].pix, PalettedFirst(content).palette)]

\* lines 65-69: the durations collected with the frames
Durations(content) ==
    [k \in 1..Len(content.frames) |-> DurationOf(content.frames[k])]

\* lines 51-82: the GIF the task saves
EncodeGif(content) ==
    IF StaticGif(Len(FramesRgb(content)))
    THEN [kind |-> "gif", save_all |-> FALSE,
          frames |-> <<PalettedFirst(content)>>, params |-> NoInfo]
    ELSE [kind |-> "gif", save_all |-> TRUE,
          frames |-> <<FramesRgb(content)[1]>> \o Tail(FramesRgb(content)),
          params |-> [loop |-> 0, duration |-> Durations(content),
                      disposal |-> 2, optimize |-> FALSE]]

Encode(content, output_format) ==
    IF output_format = "JPEG" THEN EncodeJpeg(content) ELSE EncodeGif(content)

(***************************************************************************)
(* The exceptions a task can meet, and str(e) of each.                     *)
(***************************************************************************)
ErrorMessage(kind) ==
    CASE kind = "missing"   -> "[Errno 2] No such file or directory"
      [] kind = "decode"    -> "cannot identify image file"
      [] kind = "open"      -> "[Errno 13] Permission denied"
      [] kind = "write"     -> "[Errno 28] No space left on device"
      [] kind = "delete"    -> "[Errno 16] Device or resource busy"

\* a try that ends before line 84: the removal of the original outside it
TryCoversNoDelete == {"decode", "encode"}

\* lines 30 and 90: the statements of convert_single_webp the try covers
TryCovers == {"decode", "encode", "delete"}

\* the removal in a finally clause: reached whether or not the encode succeeded
RemoveEvenOnFailure(delete_original, encoded) == delete_original

\* lines 84-86: whether os.remove is reached, given the flag and the encode
RemoveReached(delete_original, encoded) == delete_original /\ encoded

(***************************************************************************)
(* The state.                                                              *)
(***************************************************************************)
VARIABLES
    fs,               \* the file system: existing path -> content
    cpus,             \* cpu_count() of the host
    tclThreaded,      \* whether the host's Tcl is built with thread support
    mode,             \* self.mode: "folder" or "file"
    output_format,    \* self.output_format: "GIF" or "JPEG"
    delete_original,  \* self.delete_original
    webp_paths,       \* self.webp_paths
    total_files,      \* self.total_files
    completed_files,  \* self.completed_files
    gui,              \* the main (GUI) thread: where it is in convert_all
    pool,             \* the Pool of convert_all: state, task queue, cache, results
    workers,          \* the pool's worker processes
    handlers,         \* the pool's result-handler thread, which runs the callbacks
    run,              \* observations of the current convert_all call
    obs               \* observations of each task of the current call

app  == <<mode, output_format, delete_original, webp_paths, total_files,
          completed_files>>
host == <<cpus, tclThreaded>>
vars == <<fs, cpus, tclThreaded, mode, output_format, delete_original,
          webp_paths, total_files, completed_files, gui, pool, workers,
          handlers, run, obs>>

GuiThread == "MainThread"

\* line 365: apply_async(..., callback=...) has the pool's one result-handler
\* thread call the callback
ResultThreads == {"handle_results"}

\* the reset of line 359 moved below the loop of lines 363-365
ConvertAllResetsLate == <<"submit", "reset", "close", "join">>

\* convert_all without line 359
ConvertAllNoReset == <<"submit", "close", "join">>

\* lines 354-370: the order of the steps of convert_all after the guards
ConvertAllOrder == <<"reset", "submit", "close", "join">>

\* pool.terminate() in the place of pool.close()
ShutdownTerminate == "terminate"

\* line 368: how convert_all shuts the pool down
ShutdownCall == "close"

BatchDir == <<"/", "d">>
OtherDir == <<"/", "e">>
Dirs == {BatchDir, OtherDir}
NameLower == <<"a", ".", "b", ".", "w", "e", "b", "p">>
NameUpper == <<"a", ".", "b", ".", "W", "E", "B", "P">>
NameText  == <<"n", ".", "t", "x", "t">>

InitialFs(content) ==
    (join(BatchDir, NameLower) :> content)
    @@ (join(BatchDir, NameUpper) :> StillFrame)
    @@ (join(BatchDir, NameText) :> OtherFile)
    @@ (join(OtherDir, NameText) :> OtherFile)

NoPool == [state |-> "NONE", taskqueue |-> <<>>, cache |-> {}, outqueue |-> <<>>]
IdleGui == [pc |-> "idle", step |-> 0, i |-> 0, output_format |-> "",
            delete_original |-> FALSE]
IdleHandler == [pc |-> "idle", job |-> 0, value |-> <<>>, tmp |-> 0]
IdleWorker == [pc |-> "idle", job |-> 0, args |-> <<>>]
Absent == [kind |-> "absent"]
None == "None"
NoObs == [execs |-> 0, results |-> 0, delivered |-> 0, srcPre |-> Absent,
          srcPost |-> Absent, wrote |-> {}, message |-> <<>>]
NoRun == [n |-> 0, kind |-> "none", size |-> 0, callbacks |-> 0, notified |-> 0,
          warnings |-> 0]

\* the hosts and folders the program is started on: every host on the
\* animated source, and one host on every source
Starts ==
    {<<Animated, n, threaded>> : n \in 1..MaxWorkers, threaded \in BOOLEAN}
    \cup {<<c, 1, FALSE>> : c \in Sources}

Init ==
    /\ \E s \in Starts :
          /\ fs = InitialFs(s[1])
          /\ cpus = s[2]
          /\ tclThreaded = s[3]
    /\ mode = "folder"
    /\ output_format = "GIF"
    /\ delete_original = FALSE
    /\ webp_paths = <<>>
    /\ total_files = 0
    /\ completed_files = 0
    /\ gui = IdleGui
    /\ pool = NoPool
    /\ workers = <<>>
    /\ handlers = [t \in ResultThreads |-> IdleHandler]
    /\ run = NoRun
    /\ obs = <<>>

(***************************************************************************)
(* The GUI: the handlers Tk's main loop calls while the main thread is     *)
(* idle.                                                                   *)
(***************************************************************************)
Orderings(S) ==
    {s \in [1..Cardinality(S) -> S] : \A i, j \in DOMAIN s : i # j => s[i] # s[j]}

\* os.listdir(folder_path)
listdir(folder_path) ==
    {split(p)[2] : p \in {q \in DOMAIN fs : split(q)[1] = folder_path}}

\* the comprehension of lines 275-279 without its condition
IsListed(f) == TRUE

\* line 278
IsWebpName(f) == lower(splitext(f)[2]) = WebpExt

\* lines 275-279
WebpList(folder_path, all_files) ==
    LET kept == SelectSeq(all_files, IsWebpName)
    IN  [i \in 1..Len(kept) |-> join(folder_path, kept[i])]

\* the files a dialog with filetypes=[("WebP", "*.webp")] offers in a folder
Offered(folder_path) ==
    {join(folder_path, f) : f \in {g \in listdir(folder_path) :
                                       endswith(lower(g), WebpExt)}}

\* lines 303-311
Selected(paths) ==
    /\ webp_paths' = paths
    /\ total_files' = Len(paths)
    /\ completed_files' = 0

\* lines 237-258
_on_mode_change(m) ==
    /\ gui.pc = "idle"
    /\ mode' = m
    /\ webp_paths' = <<>>
    /\ total_files' = 0
    /\ completed_files' = 0
    /\ UNCHANGED <<fs, host, output_format, delete_original, gui, pool, workers,
                   handlers, run, obs>>

\* lines 191-195: the OptionMenu bound to self.output_format
set_output_format(f) ==
    /\ gui.pc = "idle"
    /\ output_format # f
    /\ output_format' = f
    /\ UNCHANGED <<fs, host, mode, delete_original, webp_paths, total_files,
                   completed_files, gui, pool, workers, handlers, run, obs>>

\* lines 197-203: the Checkbutton bound to self.delete_original
toggle_delete_original ==
    /\ gui.pc = "idle"
    /\ delete_original' = ~delete_original
    /\ UNCHANGED <<fs, host, mode, output_format, webp_paths, total_files,
                   completed_files, gui, pool, workers, handlers, run, obs>>

\* lines 260-311; folder_path = <<>> and file_paths = <<>> are a cancelled dialog
select_items_folder(folder_path, all_files) ==
    /\ gui.pc = "idle"
    /\ mode = "folder"
    /\ IF folder_path = <<>>
       THEN UNCHANGED <<webp_paths, total_files, completed_files>>
       ELSE Selected(WebpList(folder_path, all_files))
    /\ UNCHANGED <<fs, host, mode, output_format, delete_original, gui, pool,
                   workers, handlers, run, obs>>

\* the file branch without the early return of lines 294-295
select_items_files_no_return(file_paths) ==
    /\ gui.pc = "idle"
    /\ mode = "file"
    /\ Selected(file_paths)
    /\ UNCHANGED <<fs, host, mode, output_format, delete_original, gui, pool,
                   workers, handlers, run, obs>>

select_items_files(file_paths) ==
    /\ gui.pc = "idle"
    /\ mode = "file"
    /\ IF file_paths = <<>>
       THEN UNCHANGED <<webp_paths, total_files, completed_files>>
       ELSE Selected(file_paths)
    /\ UNCHANGED <<fs, host, mode, output_format, delete_original, gui, pool,
                   workers, handlers, run, obs>>

\* what askdirectory() and os.listdir() can give, a cancelled dialog included
FolderChoices ==
    {<<<<>>, <<>>>>} \cup
    UNION {{<<folder_path, all_files>> : all_files \in Orderings(listdir(folder_path))} :
              folder_path \in Dirs}

\* what askopenfilenames() can give, a cancelled dialog included
FileChoices ==
    {<<>>} \cup
    UNION {UNION {Orderings(S) : S \in SUBSET Offered(folder_path) \ {{}}} :
              folder_path \in Dirs}

select_items ==
    /\ gui.pc = "idle"
    /\ IF mode = "folder"
       THEN \E c \in FolderChoices : select_items_folder(c[1], c[2])
       ELSE \E file_paths \in FileChoices : select_items_files(file_paths)

(***************************************************************************)
(* convert_all, on the main thread.  The guards and the creation of the    *)
(* pool are one step; then the steps of ConvertAllOrder follow, each       *)
(* apply_async being a step of its own, and join() blocks.                 *)
(***************************************************************************)
Phase == IF gui.pc = "run" THEN ConvertAllOrder[gui.step] ELSE gui.pc

Warned(kind) ==
    /\ gui' = [IdleGui EXCEPT !.pc = "returned"]
    /\ run' = [NoRun EXCEPT !.n = run.n + 1, !.kind = kind, !.warnings = 1]
    /\ obs' = <<>>
    /\ UNCHANGED <<pool, workers>>

\* lines 343-356
convert_all_begin ==
    /\ gui.pc = "idle"
    /\ run.n < MaxRuns
    /\ IF webp_paths = <<>>
       THEN Warned("empty")
       ELSE IF mode = "folder"
               /\ \A i \in DOMAIN webp_paths :
                     ~endswith(lower(webp_paths[i]), WebpExt)
       THEN Warned("nowebp")
       ELSE /\ gui' = [pc |-> "run", step |-> 1, i |-> 1,
                       output_format |-> output_format,
                       delete_original |-> delete_original]
            /\ pool' = [NoPool EXCEPT !.state = "RUN"]
            /\ workers' = [w \in 1..cpus |-> IdleWorker]
            /\ run' = [NoRun EXCEPT !.n = run.n + 1, !.kind = "batch",
                                    !.size = Len(webp_paths)]
            /\ obs' = [j \in 1..Len(webp_paths) |-> NoObs]
    /\ UNCHANGED <<fs, host, app, handlers>>

Advance == [gui EXCEPT !.step = gui.step + 1, !.i = 1]

\* line 359
convert_all_reset ==
    /\ Phase = "reset"
    /\ completed_files' = 0
    /\ gui' = Advance
    /\ UNCHANGED <<fs, host, mode, output_format, delete_original, webp_paths,
                   total_files, pool, workers, handlers, run, obs>>

\* lines 363-365: one apply_async; on a pool that is no longer running it
\* raises ValueError, which ends convert_all
convert_all_submit ==
    /\ Phase = "submit"
    /\ IF pool.state # "RUN"
       THEN /\ gui' = [IdleGui EXCEPT !.pc = "returned"]
            /\ run' = [run EXCEPT !.kind = "raised"]
            /\ UNCHANGED pool
       ELSE /\ pool' = [pool EXCEPT
                  !.taskqueue = Append(@, [id |-> gui.i,
                       args |-> <<webp_paths[gui.i], gui.output_format,
                                  gui.delete_original>>]),
                  !.cache = @ \cup {gui.i}]
            /\ gui' = IF gui.i = Len(webp_paths) THEN Advance
                      ELSE [gui EXCEPT !.i = gui.i + 1]
            /\ UNCHANGED run
    /\ UNCHANGED <<fs, host, app, workers, handlers, obs>>

\* line 368
convert_all_close ==
    /\ Phase = "close"
    /\ pool' = [pool EXCEPT !.state = IF ShutdownCall = "close" THEN "CLOSE"
                                      ELSE "TERMINATE"]
    /\ gui' = Advance
    /\ UNCHANGED <<fs, host, app, workers, handlers, run, obs>>

\* line 370: join() returns once the workers and the result handler are done
JoinReturns ==
    /\ \A w \in DOMAIN workers : workers[w].pc = "exited"
    /\ \A t \in ResultThreads : handlers[t].pc = "idle"
    /\ pool.state = "TERMINATE" \/ (pool.outqueue = <<>> /\ pool.cache = {})

convert_all_join ==
    /\ Phase = "join"
    /\ JoinReturns
    /\ gui' = [IdleGui EXCEPT !.pc = "returned"]
    /\ UNCHANGED <<fs, host, app, pool, workers, handlers, run, obs>>

\* the button command returns to Tk's main loop; the pool is garbage
mainloop ==
    /\ gui.pc = "returned"
    /\ gui' = IdleGui
    /\ pool' = NoPool
    /\ workers' = <<>>
    /\ run' = [NoRun EXCEPT !.n = run.n]
    /\ obs' = <<>>
    /\ UNCHANGED <<fs, host, app, handlers>>

(***************************************************************************)
(* The worker processes: each takes the next task of the queue and runs    *)
(* convert_single_webp on it, in two steps: lines 29-82 (decode and save)  *)
(* and lines 84-91 (remove the original, return).  What the worker sends   *)
(* back is multiprocessing's pair: whether the function returned, and its  *)
(* value.                                                                  *)
(***************************************************************************)
Content(path) == IF path \in DOMAIN fs THEN fs[path] ELSE Absent

WriteFile(files, path, content) ==
    [q \in DOMAIN files \cup {path} |-> IF q = path THEN content ELSE files[q]]

RemoveFile(files, path) == [q \in DOMAIN files \ {path} |-> files[q]]

\* an exception of `kind` raised in `stage` of the task for webp_path
Raised(stage, kind, webp_path) ==
    IF stage \in TryCovers
    THEN [returned |-> TRUE, value |-> <<FALSE, webp_path, ErrorMessage(kind)>>]
    ELSE [returned |-> FALSE, value |-> <<ErrorMessage(kind)>>]

\* line 88
Succeeded(webp_path) == [returned |-> TRUE, value |-> <<TRUE, webp_path, None>>]

\* the task of worker w ends with `message`, the file system being `files`
TaskEnds(w, job, webp_path, message, files, wrote) ==
    /\ fs' = files
    /\ workers' = [workers EXCEPT ![w] = IdleWorker]
    /\ pool' = [pool EXCEPT
           !.taskqueue = IF workers[w].pc = "idle" THEN Tail(@) ELSE @,
           !.outqueue = Append(@, [job |-> job] @@ message)]
    /\ obs' = [obs EXCEPT ![job].results = @ + 1,
                          ![job].execs = IF workers[w].pc = "idle" THEN @ + 1 ELSE @,
                          ![job].srcPre = IF workers[w].pc = "idle"
                                          THEN Content(webp_path) ELSE @,
                          ![job].srcPost = IF webp_path \in DOMAIN files
                                           THEN files[webp_path] ELSE Absent,
                          ![job].wrote = @ \cup wrote,
                          ![job].message = message]

\* a failure before line 84: the original is removed only if line 86 is reached
FailsBeforeRemove(w, job, args, stage, kind, files, wrote) ==
    TaskEnds(w, job, args[1], Raised(stage, kind, args[1]),
             IF RemoveReached(args[3], FALSE) THEN RemoveFile(files, args[1])
             ELSE files,
             wrote)

EncodeOutcomes == {"ok", "open", "write"}

\* lines 29-82
convert_single_webp_encode(w, outcome) ==
    /\ pool.state \in {"RUN", "CLOSE"}
    /\ workers[w].pc = "idle"
    /\ pool.taskqueue # <<>>
    /\ LET job  == Head(pool.taskqueue).id
           args == Head(pool.taskqueue).args
           webp_path == args[1]
           out_path  == OutPath(webp_path, args[2])
       IN  IF webp_path \notin DOMAIN fs
           THEN FailsBeforeRemove(w, job, args, "decode", "missing", fs, {})
           ELSE IF DecodeFails(fs[webp_path], args[2])
           THEN FailsBeforeRemove(w, job, args, "decode", "decode", fs, {})
           ELSE IF outcome = "open"
           THEN FailsBeforeRemove(w, job, args, "encode", "open", fs, {})
           ELSE IF outcome = "write"
           THEN FailsBeforeRemove(w, job, args, "encode", "write",
                                  WriteFile(fs, out_path, Partial),
                                  {<<out_path, Partial>>})
           ELSE /\ fs' = WriteFile(fs, out_path, Encode(fs[webp_path], args[2]))
                /\ workers' = [workers EXCEPT
                       ![w] = [pc |-> "encoded", job |-> job, args |-> args]]
                /\ pool' = [pool EXCEPT !.taskqueue = Tail(@)]
                /\ obs' = [obs EXCEPT ![job].execs = @ + 1,
                                      ![job].srcPre = fs[webp_path],
                                      ![job].wrote = @ \cup
                                          {<<out_path, Encode(fs[webp_path], args[2])>>}]
    /\ UNCHANGED <<host, app, gui, handlers, run>>

\* lines 84-91; removed = FALSE is an os.remove that raises
convert_single_webp_return(w, removed) ==
    /\ pool.state \in {"RUN", "CLOSE"}
    /\ workers[w].pc = "encoded"
    /\ LET job  == workers[w].job
           args == workers[w].args
           webp_path == args[1]
       IN  IF ~RemoveReached(args[3], TRUE)
           THEN TaskEnds(w, job, webp_path, Succeeded(webp_path), fs, {})
           ELSE IF webp_path \notin DOMAIN fs
           THEN TaskEnds(w, job, webp_path,
                         Raised("delete", "missing", webp_path), fs, {})
           ELSE IF ~removed
           THEN TaskEnds(w, job, webp_path,
                         Raised("delete", "delete", webp_path), fs, {})
           ELSE TaskEnds(w, job, webp_path, Succeeded(webp_path),
                         RemoveFile(fs, webp_path), {})
    /\ UNCHANGED <<host, app, gui, handlers, run>>

\* close(): the workers get their sentinels, and exit, once every job has
\* left the cache; terminate() stops them wherever they are
WorkersMayExit ==
    \/ pool.state = "TERMINATE"
    \/ /\ pool.state = "CLOSE"
       /\ pool.cache = {}
       /\ \A w \in DOMAIN workers : workers[w].pc = "idle"

workers_exit ==
    /\ \E w \in DOMAIN workers : workers[w].pc # "exited"
    /\ WorkersMayExit
    /\ workers' = [w \in DOMAIN workers |-> [IdleWorker EXCEPT !.pc = "exited"]]
    /\ UNCHANGED <<fs, host, app, gui, pool, handlers, run, obs>>

(***************************************************************************)
(* The result handler: it takes each result off the pool's result queue    *)
(* and, for a call that returned, runs the callback _on_task_done on its   *)
(* own thread; the job leaves the cache when the callback is over.         *)
(*                                                                         *)
(* A Tk call made off the thread that owns the interpreter goes through    *)
(* when Tcl is built without threads; with a threaded Tcl it is queued to  *)
(* the interpreter's thread and waits until that thread handles events,    *)
(* which a main thread blocked in join() does not do.                      *)
(***************************************************************************)
TkCallProceeds(t) == t = GuiThread \/ ~tclThreaded \/ gui.pc = "idle"

JobDone(t) ==
    /\ handlers' = [handlers EXCEPT ![t] = IdleHandler]
    /\ pool' = [pool EXCEPT !.cache = @ \ {handlers[t].job}]

\* ApplyResult._set, and line 319 with the read of line 320
handle_result(t) ==
    /\ pool.state \in {"RUN", "CLOSE"}
    /\ handlers[t].pc = "idle"
    /\ pool.outqueue # <<>>
    /\ LET m == Head(pool.outqueue)
       IN  IF m.returned
           THEN /\ handlers' = [handlers EXCEPT ![t] =
                      [pc |-> "incr", job |-> m.job, value |-> m.value,
                       tmp |-> completed_files]]
                /\ pool' = [pool EXCEPT !.outqueue = Tail(@)]
                /\ run' = [run EXCEPT !.callbacks = @ + 1]
                /\ obs' = [obs EXCEPT ![m.job].delivered = @ + 1]
           ELSE /\ pool' = [pool EXCEPT !.outqueue = Tail(@),
                                        !.cache = @ \ {m.job}]
                /\ UNCHANGED <<handlers, run, obs>>
    /\ UNCHANGED <<fs, host, app, gui, workers>>

\* an increment guarded by the result's success flag
CountsOnlySuccess(success) == success

\* line 320: the increment does not look at the result's success flag
CountsResult(success) == TRUE

\* line 320: the store of self.completed_files += 1
_on_task_done_incr(t) ==
    /\ handlers[t].pc = "incr"
    /\ completed_files' = IF CountsResult(handlers[t].value[1])
                          THEN handlers[t].tmp + 1 ELSE handlers[t].tmp
    /\ handlers' = [handlers EXCEPT ![t].pc = "update"]
    /\ UNCHANGED <<fs, host, mode, output_format, delete_original, webp_paths,
                   total_files, gui, pool, workers, run, obs>>

\* a comparison that holds before the last result too
AnyDone(completed, total) == completed <= total

\* line 326
AllDone(completed, total) == completed = total

\* lines 322-326: the label and the bar are updated, then the counters compared
_on_task_done_update(t) ==
    /\ handlers[t].pc = "update"
    /\ TkCallProceeds(t)
    /\ IF AllDone(completed_files, total_files)
       THEN /\ handlers' = [handlers EXCEPT ![t].pc = "notify"]
            /\ UNCHANGED pool
       ELSE JobDone(t)
    /\ UNCHANGED <<fs, host, app, gui, workers, run, obs>>

\* line 327: messagebox.showinfo, until the user dismisses it
_on_task_done_notify(t) ==
    /\ handlers[t].pc = "notify"
    /\ TkCallProceeds(t)
    /\ run' = [run EXCEPT !.notified = @ + 1]
    /\ JobDone(t)
    /\ UNCHANGED <<fs, host, app, gui, workers, obs>>

(***************************************************************************)
(* The specification.                                                     *)
(***************************************************************************)
User ==
    \/ \E m \in {"folder", "file"} : _on_mode_change(m)
    \/ \E f \in {"GIF", "JPEG"} : set_output_format(f)
    \/ toggle_delete_original
    \/ select_items
    \/ convert_all_begin

Program ==
    \/ convert_all_reset
    \/ convert_all_submit
    \/ convert_all_close
    \/ convert_all_join
    \/ mainloop
    \/ \E w \in DOMAIN workers : \E outcome \in EncodeOutcomes :
          convert_single_webp_encode(w, outcome)
    \/ \E w \in DOMAIN workers : \E removed \in BOOLEAN :
          convert_single_webp_return(w, removed)
    \/ workers_exit
    \/ \E t \in ResultThreads : handle_result(t)
    \/ \E t \in ResultThreads : _on_task_done_incr(t)
    \/ \E t \in ResultThreads : _on_task_done_update(t)
    \/ \E t \in ResultThreads : _on_task_done_notify(t)

Next == User \/ Program

Spec == Init /\ [][Next]_vars

\* the threads and processes of the program are scheduled fairly; the user
\* is not obliged to do anything
FairSpec == Spec /\ WF_vars(Program)

(***************************************************************************)
(* Vocabulary of the properties.                                          *)
(***************************************************************************)
Jobs == DOMAIN obs

\* the task of job j has sent its result
Finished(j) == obs[j].results >= 1

\* the result of job j is the tuple of a successful conversion
Success(j) == obs[j].message.returned /\ obs[j].message.value[1]

\* the callback of job j has stored its increment
Counted(j) ==
    /\ obs[j].delivered >= 1
    /\ \A t \in ResultThreads : ~(handlers[t].pc = "incr" /\ handlers[t].job = j)

\* convert_all is past its reset of completed_files
AfterReset ==
    \/ gui.pc = "run" /\ \E k \in 1..(gui.step - 1) : ConvertAllOrder[k] = "reset"
    \/ gui.pc = "returned" /\ run.kind = "batch"

\* convert_all has returned from a batch it submitted
BatchReturned == gui.pc = "returned" /\ run.kind = "batch"

(***************************************************************************)
(* C1.  As claimed: once convert_all has returned from a batch of N >= 0   *)
(* files, _on_task_done has been called N times, completed_files =         *)
(* total_files = N, and the completion notice was shown exactly once.      *)
(* The empty batch refutes the last part.                                  *)
(***************************************************************************)
C1_AsClaimed ==
    gui.pc = "returned" =>
        /\ run.callbacks = Len(webp_paths)
        /\ completed_files = total_files
        /\ total_files = Len(webp_paths)
        /\ run.notified = 1

(***************************************************************************)
(* C1, amended.  Once convert_all has returned: the callback has been      *)
(* called N = len(webp_paths) times and completed_files = total_files = N; *)
(* for N >= 1 the completion notice was shown exactly once; for N = 0      *)
(* convert_all showed its warning, and no completion notice.               *)
(***************************************************************************)
C1_BatchComplete ==
    gui.pc = "returned" =>
        /\ run.callbacks = Len(webp_paths)
        /\ completed_files = total_files
        /\ total_files = Len(webp_paths)
        /\ run.size = Len(webp_paths)
        /\ IF Len(webp_paths) >= 1
           THEN run.notified = 1 /\ run.warnings = 0
           ELSE run.notified = 0 /\ run.warnings = 1

C1_Witness ==
    /\ BatchReturned
    /\ run.size = 2
    /\ run.callbacks = 2
    /\ run.notified = 1
    /\ completed_files = 2

(***************************************************************************)
(* C2.  In every state 0 <= completed_files <= total_files; during a       *)
(* batch completed_files is exactly the number of results whose callback   *)
(* has stored its increment, failed conversions included; so once every   *)
(* result of the batch has been counted, and when convert_all returns,     *)
(* completed_files has reached total_files, whatever the results were.     *)
(***************************************************************************)
C2_ProgressCounts ==
    /\ 0 <= completed_files
    /\ completed_files <= total_files
    /\ AfterReset => completed_files = Cardinality({j \in Jobs : Counted(j)})
    /\ \A j \in Jobs : obs[j].delivered <= obs[j].results
    /\ (AfterReset /\ \A j \in Jobs : Counted(j)) => completed_files = total_files
    /\ BatchReturned => completed_files = total_files

C2_Witness ==
    /\ BatchReturned
    /\ total_files = 2
    /\ completed_files = 2
    /\ \A j \in Jobs : Finished(j) /\ ~Success(j)

(***************************************************************************)
(* C3.  As claimed: under fair scheduling a batch that convert_all has     *)
(* started drains: every task's result reaches the callback exactly once   *)
(* and convert_all returns.  On a host whose Tcl is threaded the first     *)
(* callback waits for the main thread, which waits in join(): the batch    *)
(* never drains.                                                          *)
(***************************************************************************)
C3_BatchDrains ==
    (gui.pc = "run") ~>
        (BatchReturned /\ \A j \in Jobs : obs[j].results = 1 /\ obs[j].delivered = 1)

(***************************************************************************)
(* C4.  For every task that has sent its result: the source file is gone   *)
(* if and only if delete_original is set and the result is a success, and  *)
(* after a failing result the source is as it was before the task; while   *)
(* a task is between its save and its return the source is still in place. *)
(***************************************************************************)
C4_DeleteIffSuccess ==
    /\ \A j \in Jobs : Finished(j) =>
          /\ (obs[j].srcPre # Absent /\ obs[j].srcPost = Absent)
                <=> (delete_original /\ Success(j))
          /\ ~Success(j) => obs[j].srcPost = obs[j].srcPre
          /\ (Success(j) /\ ~delete_original) => obs[j].srcPost = obs[j].srcPre
    /\ \A w \in DOMAIN workers : workers[w].pc = "encoded" =>
          /\ obs[workers[w].job].wrote # {}
          /\ Content(workers[w].args[1]) = obs[workers[w].job].srcPre
          /\ Content(workers[w].args[1]) # Absent

C4_Witness ==
    \E i, j \in Jobs :
        /\ Finished(i) /\ Success(i) /\ delete_original
        /\ obs[i].srcPre # Absent /\ obs[i].srcPost = Absent
        /\ Finished(j) /\ ~Success(j)
        /\ obs[j].srcPre # Absent /\ obs[j].srcPost = obs[j].srcPre

(***************************************************************************)
(* C5.  Every task that has run has sent exactly one result, and that      *)
(* result is a value convert_single_webp returned, never an exception      *)
(* that escaped it: a failure is the tuple (False, source path, message)   *)
(* with a message that is a non-empty string.  The results of failed       *)
(* tasks reach the callback like the others: when convert_all returns,     *)
(* every task has its one result and the callback has had it.              *)
(***************************************************************************)
C5_ErrorsBecomeResults ==
    /\ \A j \in Jobs :
          /\ obs[j].results <= 1
          /\ obs[j].execs >= 1 /\ (\A w \in DOMAIN workers : workers[w].job # j)
                => obs[j].results = 1
          /\ Finished(j) =>
                /\ obs[j].message.returned
                /\ Len(obs[j].message.value) = 3
                /\ obs[j].message.value[2] = webp_paths[j]
                /\ IF obs[j].message.value[1]
                   THEN obs[j].message.value[3] = None
                   ELSE obs[j].message.value[3] \notin {None, ""}
    /\ BatchReturned => \A j \in Jobs : Finished(j) /\ obs[j].delivered = 1

C5_Witness ==
    /\ BatchReturned
    /\ \E i, j \in Jobs :
          /\ obs[i].message.value = <<FALSE, webp_paths[i], ErrorMessage("delete")>>
          /\ obs[j].message.value = <<FALSE, webp_paths[j], ErrorMessage("decode")>>
          /\ obs[i].delivered = 1 /\ obs[j].delivered = 1

(***************************************************************************)
(* C6.  At most one callback is in progress at any time; none is in        *)
(* progress, and none can begin, while convert_all resets the counter;     *)
(* after the reset the counter and the increments in progress add up to    *)
(* the number of callbacks begun (no increment is lost); and the           *)
(* completion notice is shown at most once, and only when every task of    *)
(* the batch has had its callback.                                        *)
(***************************************************************************)
Active == {t \in ResultThreads : handlers[t].pc # "idle"}

C6_Serialized ==
    /\ Cardinality(Active) <= 1
    /\ Phase = "reset" =>
          /\ Active = {}
          /\ pool.cache = {} /\ pool.taskqueue = <<>> /\ pool.outqueue = <<>>
    /\ AfterReset =>
          completed_files
              + Cardinality({t \in ResultThreads : handlers[t].pc = "incr"})
            = run.callbacks
    /\ run.notified <= 1
    /\ (run.notified = 1 \/ \E t \in ResultThreads : handlers[t].pc = "notify")
          => run.callbacks = run.size

\* a callback is between its read and its store while a second result waits
\* and the main thread has not yet closed the pool
C6_Witness ==
    /\ \E t \in ResultThreads : handlers[t].pc = "incr"
    /\ pool.outqueue # <<>>
    /\ Phase = "close"

(***************************************************************************)
(* C7.  As claimed: close() comes after the last result of the batch, so   *)
(* whenever the pool is closed every submitted task has sent its result.   *)
(* convert_all calls close() right after its last apply_async.             *)
(***************************************************************************)
C7_CloseAfterLastResult ==
    pool.state = "CLOSE" => \A j \in Jobs : Finished(j)

(***************************************************************************)
(* C7, amended.  The workers do not exit, and join() does not return,      *)
(* until every submitted task has run once, sent its one result and had    *)
(* its result handled; close() itself may come before any result.  No      *)
(* task is run twice, none is submitted to a pool that is closed, and a    *)
(* task leaves the queue only by being run.                                *)
(***************************************************************************)
Submitted ==
    IF gui.pc = "run" /\ Phase = "submit" THEN 1..(gui.i - 1)
    ELSE IF AfterReset THEN Jobs ELSE {}

Queued == {pool.taskqueue[k].id : k \in DOMAIN pool.taskqueue}

C7_JoinAfterLastResult ==
    /\ ((\E w \in DOMAIN workers : workers[w].pc = "exited") \/ BatchReturned)
          => \A j \in Jobs :
                obs[j].execs = 1 /\ obs[j].results = 1 /\ obs[j].delivered = 1
    /\ \A j \in Jobs : obs[j].execs <= 1 /\ obs[j].results <= obs[j].execs
    /\ \A j \in Submitted : (j \in Queued) <=> (obs[j].execs = 0)
    /\ Phase = "submit" => pool.state = "RUN"

\* the workers of a closed pool have exited, after both results of the batch
C7_Witness ==
    /\ pool.state = "CLOSE"
    /\ \E w \in DOMAIN workers : workers[w].pc = "exited"
    /\ run.size = 2
    /\ \A j \in Jobs : Finished(j)

(***************************************************************************)
(* C8.  As claimed: a callback runs on the GUI thread only.  It runs on    *)
(* the pool's result-handler thread, while the GUI thread is in            *)
(* convert_all.                                                           *)
(***************************************************************************)
C8_CallbackOnGuiThread ==
    \A t \in ResultThreads : handlers[t].pc # "idle" => t = GuiThread

(***************************************************************************)
(* C9.  As claimed: every task that has ended has written exactly one      *)
(* file, the source's directory and base name with the extension of the    *)
(* format.  A task whose source does not decode writes none.               *)
(***************************************************************************)
\* out is src with its last extension replaced by ext, in the same directory
ReplacesExtension(out, src, ext) ==
    \E i, k \in 1..Len(src) :
        /\ i < k
        /\ src[i] = "/" /\ \A n \in (i + 1)..Len(src) : src[n] # "/"
        /\ src[k] = "." /\ \A n \in (k + 1)..Len(src) : src[n] # "."
        /\ out = SubSeq(src, 1, i - 1) \o <<"/">> \o SubSeq(src, i + 1, k - 1)
                    \o <<".">> \o ext

FormatExtension == IF output_format = "JPEG" THEN <<"j", "p", "g">>
                   ELSE <<"g", "i", "f">>

PathsWritten(j) == {x[1] : x \in obs[j].wrote}

C9_ExactlyOneOutput ==
    \A j \in Jobs : Finished(j) =>
        /\ Cardinality(PathsWritten(j)) = 1
        /\ \A out \in PathsWritten(j) :
              ReplacesExtension(out, webp_paths[j], FormatExtension)

(***************************************************************************)
(* C9, amended.  Each task writes at most one file, and exactly one when   *)
(* its result is a success: every path a task writes is the source's       *)
(* directory and base name with the extension jpg for JPEG and gif for     *)
(* GIF, and a task whose source is missing or does not decode writes no    *)
(* file.                                                                   *)
(***************************************************************************)
C9_OutputPath ==
    \A j \in Jobs :
        /\ Cardinality(PathsWritten(j)) <= 1
        /\ \A out \in PathsWritten(j) :
              ReplacesExtension(out, webp_paths[j], FormatExtension)
        /\ (Finished(j) /\ Success(j)) => Cardinality(PathsWritten(j)) = 1
        /\ (Finished(j) /\ (obs[j].srcPre = Absent
                              \/ DecodeFails(obs[j].srcPre, output_format)))
              => PathsWritten(j) = {}

C9_Witness ==
    \E i, j \in Jobs :
        /\ Finished(i) /\ Success(i) /\ output_format = "JPEG"
        /\ PathsWritten(i) = {<<"/", "d", "/", "a", ".", "b", ".", "j", "p", "g">>}
        /\ Finished(j) /\ ~Success(j) /\ PathsWritten(j) = {}

(***************************************************************************)
(* C10.  For a GIF task that succeeded on a source of K frames: the file   *)
(* it wrote has K frames in the source's order when K > 1, written with    *)
(* the collected durations, each the source frame's duration or 100 when   *)
(* the frame has none; it is one static image, written without durations,  *)
(* when K = 1; and every frame has the palette of the first source         *)
(* frame's colours, each pixel on the palette entry nearest to the source  *)
(* pixel.                                                                  *)
(***************************************************************************)
Colours(frame) == {frame.pix[n] : n \in DOMAIN frame.pix}

\* the output frame is the source frame mapped onto the palette
MappedOnto(outFrame, srcFrame, palette) ==
    /\ outFrame.palette = palette
    /\ DOMAIN outFrame.pix = DOMAIN srcFrame.pix
    /\ \A n \in DOMAIN srcFrame.pix :
          /\ outFrame.pix[n] \in palette
          /\ \A r \in palette :
                Dist(srcFrame.pix[n], outFrame.pix[n]) <= Dist(srcFrame.pix[n], r)

GifAsSpecified(src, out) ==
    LET K == Len(src.frames)
        palette == Colours(src.frames[1])
    IN  /\ out.kind = "gif"
        /\ Len(out.frames) = K
        /\ \A k \in 1..K : MappedOnto(out.frames[k], src.frames[k], palette)
        /\ IF K > 1
           THEN /\ out.save_all
                /\ Len(out.params.duration) = K
                /\ \A k \in 1..K :
                      out.params.duration[k] =
                          IF "duration" \in DOMAIN src.frames[k].info
                          THEN src.frames[k].info["duration"] ELSE 100
           ELSE ~out.save_all /\ out.params = NoInfo

C10_GifFrames ==
    \A j \in Jobs :
        (Finished(j) /\ Success(j) /\ output_format = "GIF") =>
            \A x \in obs[j].wrote : GifAsSpecified(obs[j].srcPre, x[2])

C10_Witness ==
    \E i, j \in Jobs :
        /\ Finished(i) /\ Success(i) /\ Finished(j) /\ Success(j)
        /\ output_format = "GIF"
        /\ Len(obs[i].srcPre.frames) = 3 /\ Len(obs[j].srcPre.frames) = 1
        /\ \E x \in obs[i].wrote : x[2].params.duration = <<100, 40, 80>>
        /\ \E x \in obs[j].wrote : Len(x[2].frames) = 1

(***************************************************************************)
(* C11.  As claimed: when the removal of the original fails after a        *)
(* successful encode, the exception leaves convert_single_webp uncaught,   *)
(* so the task sends no value the function returned.  The removal is       *)
(* inside the try of lines 30-91.                                          *)
(***************************************************************************)
\* the task of job j saved its whole output, was to remove the source, and
\* the source is still there: os.remove raised
RemovalFailed(j) ==
    /\ Finished(j)
    /\ delete_original
    /\ \E x \in obs[j].wrote : x[2] # Partial
    /\ obs[j].srcPost # Absent

C11_RemovalFailurePropagates ==
    \A j \in Jobs : RemovalFailed(j) => ~obs[j].message.returned

(***************************************************************************)
(* C11, amended.  When the removal of the original fails after a           *)
(* successful encode, the exception is caught in convert_single_webp: the  *)
(* task returns (False, source path, message) with a non-empty message,    *)
(* the output it saved stays written and the source stays as it was; the   *)
(* result reaches the callback like any other.                             *)
(***************************************************************************)
C11_RemovalFailureReturned ==
    \A j \in Jobs : RemovalFailed(j) =>
        /\ obs[j].message.returned
        /\ Len(obs[j].message.value) = 3
        /\ obs[j].message.value[1] = FALSE
        /\ obs[j].message.value[2] = webp_paths[j]
        /\ obs[j].message.value[3] \notin {None, ""}
        /\ obs[j].srcPost = obs[j].srcPre
        /\ \A x \in obs[j].wrote : Content(x[1]) # Absent
        /\ BatchReturned => obs[j].delivered = 1

C11_Witness ==
    \E j \in Jobs :
        /\ RemovalFailed(j)
        /\ obs[j].message.value = <<FALSE, webp_paths[j], ErrorMessage("delete")>>
        /\ obs[j].delivered = 1

(***************************************************************************)
(* C12.  As claimed: two distinct tasks of one batch touch disjoint files: *)
(* no path one of them writes is a path the other writes, or the other's   *)
(* source; and so, when convert_all has returned, the output of every      *)
(* task that succeeded is on disk as that task saved it.  Two sources of   *)
(* one folder whose names differ only in the case of the extension are     *)
(* given the same output path.                                             *)
(***************************************************************************)
C12_TasksDisjoint ==
    /\ \A i, j \in Jobs : i # j =>
          /\ webp_paths[i] # webp_paths[j]
          /\ PathsWritten(i) \cap (PathsWritten(j) \cup {webp_paths[j]}) = {}
    /\ BatchReturned =>
          \A j \in Jobs : Success(j) =>
              \A x \in obs[j].wrote : Content(x[1]) = x[2]

(***************************************************************************)
(* C13.  The progress pair is set before any task of a batch is            *)
(* submitted: total_files is len(webp_paths) in every state; while         *)
(* convert_all has not yet reset the counter nothing of the batch is       *)
(* submitted; and when convert_all is about to submit its first task,      *)
(* completed_files = 0 and total_files = len(webp_paths), the number of    *)
(* tasks it will submit, whatever mode changes, selections, cancelled      *)
(* selections and earlier batches came before.                             *)
(***************************************************************************)
C13_ResetBeforeSubmit ==
    /\ total_files = Len(webp_paths)
    /\ (gui.pc = "run" /\ ~AfterReset) =>
          /\ pool.taskqueue = <<>> /\ pool.cache = {} /\ pool.outqueue = <<>>
          /\ \A j \in Jobs : obs[j].execs = 0
    /\ (Phase = "submit" /\ gui.i = 1) =>
          /\ completed_files = 0
          /\ total_files = Len(webp_paths)
          /\ run.size = Len(webp_paths)
          /\ Jobs = 1..Len(webp_paths)
    /\ \A j \in Jobs : obs[j].execs > 0 => AfterReset

\* the second batch is about to submit its first task, with the list the
\* first batch ran on (that batch removed the sources the list names)
C13_Witness ==
    /\ Phase = "submit"
    /\ gui.i = 1
    /\ run.n = 2
    /\ total_files = 2
    /\ completed_files = 0
    /\ \A i \in DOMAIN webp_paths : webp_paths[i] \notin DOMAIN fs

(***************************************************************************)
(* C14.  A task whose source cannot be decoded (the file is no image, or   *)
(* a frame the format needs fails to decode) fails, writes no output file  *)
(* and leaves the source as it was, also when delete_original is set.      *)
(***************************************************************************)
\* JPEG reads the first frame only, GIF reads every frame
Undecodable(content, format) ==
    \/ content.kind # "webp"
    \/ /\ content.bad # 0
       /\ format = "GIF" \/ content.bad = 1

C14_DecodeFailureKeepsSource ==
    \A j \in Jobs :
        (Finished(j) /\ obs[j].srcPre # Absent
           /\ Undecodable(obs[j].srcPre, output_format)) =>
            /\ ~Success(j)
            /\ obs[j].message.value[3] \notin {None, ""}
            /\ obs[j].wrote = {}
            /\ obs[j].srcPost = obs[j].srcPre
            /\ Content(webp_paths[j]) = obs[j].srcPre

\* with delete_original set, a source whose second frame is broken has
\* failed as a GIF
C14_Witness ==
    \E j \in Jobs :
        /\ Finished(j)
        /\ delete_original
        /\ output_format = "GIF"
        /\ obs[j].srcPre.kind = "webp"
        /\ obs[j].srcPre.bad = 2
        /\ obs[j].wrote = {}
        /\ Content(webp_paths[j]) = obs[j].srcPre

(***************************************************************************)
(* C15.  In folder mode every path of a non-empty webp_paths ends in       *)
(* ".webp", whatever the case of its letters, so the second guard of       *)
(* convert_all (lines 347-349) never fires: the only warning convert_all   *)
(* shows is that of the empty list.                                        *)
(***************************************************************************)
C15_FolderListIsWebp ==
    /\ (mode = "folder" /\ webp_paths # <<>>) =>
          \A i \in DOMAIN webp_paths : endswith(lower(webp_paths[i]), WebpExt)
    /\ run.kind # "nowebp"
    /\ run.warnings >= 1 => (run.kind = "empty" /\ webp_paths = <<>>)

\* a folder batch has passed both guards with a name in upper case in its list
C15_Witness ==
    /\ mode = "folder"
    /\ run.kind = "batch"
    /\ Len(webp_paths) = 2
    /\ \E i \in DOMAIN webp_paths : endswith(webp_paths[i], <<".", "W", "E", "B", "P">>)

(***************************************************************************)
(* C16.  Every step of the program has these effects: a cancelled dialog   *)
(* of select_items (an empty folder path, an empty tuple of files) leaves  *)
(* webp_paths, total_files and completed_files as they were; a mode        *)
(* change sets them to the empty list, 0 and 0; and convert_all on an      *)
(* empty webp_paths shows its warning and returns with no pool created,    *)
(* no task submitted and the progress pair as it was.                      *)
(***************************************************************************)
Cancelled == select_items_folder(<<>>, <<>>) \/ select_items_files(<<>>)

ModeChanged == \E m \in {"folder", "file"} : _on_mode_change(m)

EmptyConvert == convert_all_begin /\ webp_paths = <<>>

C16_FrameEffects ==
    [][ /\ Cancelled => UNCHANGED <<webp_paths, total_files, completed_files>>
        /\ ModeChanged =>
              /\ webp_paths' = <<>>
              /\ total_files' = 0
              /\ completed_files' = 0
        /\ EmptyConvert =>
              /\ UNCHANGED <<webp_paths, total_files, completed_files>>
              /\ pool' = NoPool
              /\ workers' = <<>>
              /\ obs' = <<>>
              /\ run'.callbacks = 0
              /\ run'.warnings = 1
              /\ gui'.pc = "returned"
      ]_vars

\* after a batch that wrote its output a mode change emptied the list, and
\* convert_all has returned from the empty list
C16_Witness ==
    /\ gui.pc = "returned"
    /\ run.kind = "empty"
    /\ run.n = 2
    /\ mode = "file"
    /\ \E p \in DOMAIN fs : fs[p].kind = "gif"
    /\ webp_paths = <<>> /\ total_files = 0 /\ completed_files = 0
    /\ pool = NoPool

=============================================================================
